---------------------------- MODULE Spec2Model ----------------------------
(***************************************************************************)
(* Model of the bundle pipeline of src/src/utils/evm.rs:                   *)
(*   create_envelope, broadcast_bundle, create_bundle,                     *)
(*   retrieve_bundle_data,                                                 *)
(* together with the codec, compression and wrapper helpers they call      *)
(* (TxEnvelopeWrapper, BundleData), which live outside evm.rs.             *)
(***************************************************************************)
EXTENDS Integers, Sequences, FiniteSets, TLC

(***************************************************************************)
(* Bounds of the model.                                                    *)
(***************************************************************************)
\* longest list of leaf specs handed to create_bundle
MaxLeaves == 3
\* longest bundle fed to the codec / retrieval pipeline
MaxBundle == 2
\* longest string asked of generate_random_calldata
MaxCalldataLen == 11

(***************************************************************************)
(* Bytes, strings and options.  A string is a sequence of one-character    *)
(* strings; a byte string is a sequence of numbers 0 .. 255.               *)
(***************************************************************************)
None == [some |-> FALSE, val |-> <<>>]
Some(v) == [some |-> TRUE, val |-> v]

Ok(v) == [ok |-> TRUE, val |-> v, err |-> "-"]
Err(e) == [ok |-> FALSE, val |-> <<>>, err |-> e]

Rep(x, n) == [i \in 1 .. n |-> x]

\* The operators that recurse by halves take the value of their argument
\* once, as v, and work on v: an argument that is itself a long expression is
\* then computed once and not once for each place it is used in.

\* the sum of a sequence of numbers, by halves
RECURSIVE SumSeq(_)
SumSeq(s) ==
    CHOOSE sum \in
        {IF v = <<>> THEN 0
         ELSE IF Len(v) = 1 THEN v[1]
         ELSE SumSeq(SubSeq(v, 1, Len(v) \div 2))
              + SumSeq(SubSeq(v, Len(v) \div 2 + 1, Len(v))) : v \in {s}} : TRUE

\* the concatenation of a sequence of sequences, by halves
RECURSIVE Flatten(_)
Flatten(ss) ==
    CHOOSE all \in
        {IF v = <<>> THEN <<>>
         ELSE IF Len(v) = 1 THEN v[1]
         ELSE Flatten(SubSeq(v, 1, Len(v) \div 2))
              \o Flatten(SubSeq(v, Len(v) \div 2 + 1, Len(v))) : v \in {ss}} : TRUE

\* little-endian encoding of n in w bytes, and its inverse
RECURSIVE LE(_, _)
LE(n, w) == IF w = 0 THEN <<>> ELSE <<n % 256>> \o LE(n \div 256, w - 1)

RECURSIVE UnLE(_)
UnLE(bs) == IF bs = <<>> THEN 0 ELSE Head(bs) + 256 * UnLE(Tail(bs))

(***************************************************************************)
(* Hexadecimal text.                                                       *)
(***************************************************************************)
HexDigits == <<"0", "1", "2", "3", "4", "5", "6", "7",
               "8", "9", "a", "b", "c", "d", "e", "f">>
HexUpper == <<"0", "1", "2", "3", "4", "5", "6", "7",
              "8", "9", "A", "B", "C", "D", "E", "F">>

IsHexChar(c) == \E i \in 1 .. 16 : HexDigits[i] = c \/ HexUpper[i] = c
HexVal(c) == (CHOOSE i \in 1 .. 16 : HexDigits[i] = c \/ HexUpper[i] = c) - 1

\* hex::encode: two lowercase digits per byte
HexEncode(bs) ==
    [i \in 1 .. 2 * Len(bs) |->
        IF i % 2 = 1 THEN HexDigits[(bs[(i + 1) \div 2] \div 16) + 1]
                     ELSE HexDigits[(bs[i \div 2] % 16) + 1]]

\* hex::decode: an odd length or a non-hex character is an error
HexDecode(s) ==
    IF Len(s) % 2 = 1 THEN Err("OddLength")
    ELSE IF \E i \in 1 .. Len(s) : ~IsHexChar(s[i]) THEN Err("InvalidHexCharacter")
    ELSE Ok([i \in 1 .. Len(s) \div 2 |->
                16 * HexVal(s[2 * i - 1]) + HexVal(s[2 * i])])

HasPrefix0x(s) == Len(s) >= 2 /\ s[1] = "0" /\ s[2] = "x"

\* str::strip_prefix("0x"), applied once when the prefix is there
StripPrefix0x(s) == IF HasPrefix0x(s) THEN SubSeq(s, 3, Len(s)) ELSE s

\* str::trim_start_matches("0x"): removes the prefix as often as it repeats
RECURSIVE TrimStartMatches0x(_)
TrimStartMatches0x(s) ==
    IF HasPrefix0x(s) THEN TrimStartMatches0x(SubSeq(s, 3, Len(s))) ELSE s

(***************************************************************************)
(* Types of the alloy library used by evm.rs.                              *)
(***************************************************************************)
\* alloy::primitives::Address: 20 bytes
AddrLen == 20
\* PrivateKeySigner: a 32-byte secp256k1 scalar
KeyLen == 32
\* a recoverable signature: r, s (32 bytes each) and the parity byte
SigLen == 65

\* Address::ZERO
ADDRESS_ZERO == Rep(0, AddrLen)

\* crate::utils::constants::CHAIN_ID
CHAIN_ID == 9496

\* <Address as FromStr>::from_str: an optional 0x, then exactly 40 hex digits
ParseAddress(s) ==
    LET d == HexDecode(StripPrefix0x(s))
    IN  IF d.ok /\ Len(d.val) = AddrLen THEN Ok(d.val) ELSE Err("AddressParseError")

\* <PrivateKeySigner as FromStr>::from_str: an optional 0x, then 64 hex digits
\* that are a non-zero scalar
ParseSigner(s) ==
    LET d == HexDecode(StripPrefix0x(s))
    IN  IF d.ok /\ Len(d.val) = KeyLen /\ SumSeq(d.val) # 0
        THEN Ok(d.val) ELSE Err("SignerError")

(***************************************************************************)
(* create_envelope                                                         *)
(***************************************************************************)
\* lines 41-44: the target string parsed, the zero address when the target
\* is absent or does not parse
EnvelopeTargetAddress(target) ==
    IF target.some
    THEN LET a == ParseAddress(target.val)
         IN  IF a.ok THEN a.val ELSE ADDRESS_ZERO
    ELSE ADDRESS_ZERO

\* a leaf request that keeps a default gas limit instead of the sentinel
LeafRequestDefaultGas(to, data) ==
    [to |-> to, nonce |-> 0, chain_id |-> CHAIN_ID, input |-> data,
     value |-> 0, gas_limit |-> 21000, gas_price |-> 0]

\* lines 50-57: the request of a leaf
LeafRequest(to, data) ==
    [to |-> to, nonce |-> 0, chain_id |-> CHAIN_ID, input |-> data,
     value |-> 0, gas_limit |-> 0, gas_price |-> 0]

\* the bytes a request is signed over
SigningPayload(tx) ==
    LE(tx.nonce, 8) \o LE(tx.gas_price, 8) \o LE(tx.gas_limit, 8) \o tx.to
        \o LE(tx.value, 8) \o tx.input \o LE(tx.chain_id, 8)

\* the signature of a request: a digest of the key and of the signed bytes
Sign(key, tx) ==
    LET h == (7 * SumSeq(key) + SumSeq(SigningPayload(tx)) + Len(tx.input)) % 256
    IN  [i \in 1 .. SigLen |-> (h + i) % 256]

\* line 59 and line 90: TransactionRequest::build, the request with its signature
BuildTx(tx, key) ==
    [to |-> tx.to, nonce |-> tx.nonce, chain_id |-> tx.chain_id,
     input |-> tx.input, value |-> tx.value, gas_limit |-> tx.gas_limit,
     gas_price |-> tx.gas_price, signature |-> Sign(key, tx)]

\* create_envelope with the payload checked before the credential
create_envelope_data_first(private_key, envelope) ==
    IF ~envelope.data.some THEN Err("Data Required")
    ELSE IF ~private_key.some THEN Err("PrivateKeyNeeded")
    ELSE LET signer == ParseSigner(private_key.val)
         IN  IF ~signer.ok THEN Err("PrivateKeyParsingError")
             ELSE Ok(BuildTx(LeafRequest(EnvelopeTargetAddress(envelope.target),
                                         envelope.data.val),
                             signer.val))

\* lines 32-64.  private_key is an option of a string, envelope a record
\* [target, data] of options.
create_envelope(private_key, envelope) ==
    IF private_key.some
    THEN LET signer == ParseSigner(private_key.val)
         IN  IF ~signer.ok THEN Err("PrivateKeyParsingError")
             ELSE IF ~envelope.data.some THEN Err("Data Required")
             ELSE Ok(BuildTx(LeafRequest(EnvelopeTargetAddress(envelope.target),
                                         envelope.data.val),
                             signer.val))
    ELSE Err("PrivateKeyNeeded")

(***************************************************************************)
(* TxEnvelopeWrapper and BundleData (crate::utils::core).                  *)
(***************************************************************************)
\* widths of the wire format
U32Width == 4
U64Width == 8

\* TxEnvelopeWrapper::from_envelope: the bundle member of a signed envelope
from_envelope(tx) ==
    [nonce |-> tx.nonce, gas_limit |-> tx.gas_limit, gas_price |-> tx.gas_price,
     to |-> tx.to, value |-> tx.value, input |-> tx.input,
     signature |-> tx.signature]

\* BundleData::from
BundleDataFrom(envelopes) == [envelopes |-> envelopes]

\* one envelope record: nonce, gas_limit, gas_price, target, value,
\* length-prefixed payload, signature
EncodeEnvelope(w) ==
    LE(w.nonce, U64Width) \o LE(w.gas_limit, U64Width) \o LE(w.gas_price, U64Width)
        \o w.to \o LE(w.value, U64Width)
        \o LE(Len(w.input), U32Width) \o w.input \o w.signature

\* TxEnvelopeWrapper::borsh_ser: the count, then the records in order
borsh_ser(bundle) ==
    LE(Len(bundle.envelopes), U32Width)
        \o Flatten([i \in 1 .. Len(bundle.envelopes) |->
                       EncodeEnvelope(bundle.envelopes[i])])

\* the fixed-width part of a record, up to and including the payload length
RecordHead == 4 * U64Width + AddrLen + U32Width

\* reads n records from bs; the bytes must be used up exactly
RECURSIVE DecodeRecords(_, _)
DecodeRecords(bs, n) ==
    IF n = 0
    THEN IF bs = <<>> THEN Ok(<<>>) ELSE Err("DecodeError")
    ELSE IF Len(bs) < RecordHead THEN Err("DecodeError")
    ELSE LET plen == UnLE(SubSeq(bs, RecordHead - U32Width + 1, RecordHead))
             total == RecordHead + plen + SigLen
         IN  IF Len(bs) < total THEN Err("DecodeError")
             ELSE LET w == [nonce |-> UnLE(SubSeq(bs, 1, U64Width)),
                            gas_limit |-> UnLE(SubSeq(bs, U64Width + 1, 2 * U64Width)),
                            gas_price |-> UnLE(SubSeq(bs, 2 * U64Width + 1, 3 * U64Width)),
                            to |-> SubSeq(bs, 3 * U64Width + 1, 3 * U64Width + AddrLen),
                            value |-> UnLE(SubSeq(bs, 3 * U64Width + AddrLen + 1,
                                                  4 * U64Width + AddrLen)),
                            input |-> SubSeq(bs, RecordHead + 1, RecordHead + plen),
                            signature |-> SubSeq(bs, RecordHead + plen + 1, total)]
                      rest == DecodeRecords(SubSeq(bs, total + 1, Len(bs)), n - 1)
                  IN  IF rest.ok THEN Ok(<<w>> \o rest.val) ELSE rest

\* the decoder behind TxEnvelopeWrapper::borsh_der
DecodeBundle(bs) ==
    IF Len(bs) < U32Width THEN Err("DecodeError")
    ELSE LET r == DecodeRecords(SubSeq(bs, U32Width + 1, Len(bs)),
                                UnLE(SubSeq(bs, 1, U32Width)))
         IN  IF r.ok THEN Ok(BundleDataFrom(r.val)) ELSE r

(***************************************************************************)
(* The compression layer: a lossless run-length coder, a stream of         *)
(* (count, byte) pairs with 1 <= count <= 255.                             *)
(***************************************************************************)
MaxRun == 255

\* two compressed streams joined: the run that ends the first and the run
\* that starts the second become one when they are of the same byte
JoinRuns(c1, c2) ==
    CHOOSE joined \in
        {IF v1 = <<>> \/ v2 = <<>> \/ v1[Len(v1)] # v2[2] THEN v1 \o v2
         ELSE IF v1[Len(v1) - 1] + v2[1] <= MaxRun
              THEN SubSeq(v1, 1, Len(v1) - 2)
                   \o <<v1[Len(v1) - 1] + v2[1], v2[2]>>
                   \o SubSeq(v2, 3, Len(v2))
              ELSE SubSeq(v1, 1, Len(v1) - 2)
                   \o <<MaxRun, v2[2], v1[Len(v1) - 1] + v2[1] - MaxRun, v2[2]>>
                   \o SubSeq(v2, 3, Len(v2)) : v1 \in {c1}, v2 \in {c2}} : TRUE

\* TxEnvelopeWrapper::brotli_compress
RECURSIVE brotli_compress(_)
brotli_compress(bs) ==
    CHOOSE coded \in
        {IF v = <<>> THEN <<>>
         ELSE IF Len(v) = 1 THEN <<1, v[1]>>
         ELSE JoinRuns(brotli_compress(SubSeq(v, 1, Len(v) \div 2)),
                       brotli_compress(SubSeq(v, Len(v) \div 2 + 1, Len(v))))
            : v \in {bs}} : TRUE

\* the decompressor behind TxEnvelopeWrapper::brotli_decompress
Decompress(cs) ==
    IF Len(cs) % 2 = 1 \/ \E i \in 1 .. Len(cs) \div 2 : cs[2 * i - 1] = 0
    THEN Err("CompressionError")
    ELSE Ok(Flatten([i \in 1 .. Len(cs) \div 2 |-> Rep(cs[2 * i], cs[2 * i - 1])]))

(***************************************************************************)
(* The chain gateway as broadcast_bundle and create_bundle use it.         *)
(***************************************************************************)
\* crate::utils::constants::WVM_RPC_URL
WVM_RPC_URL == <<"h", "t", "t", "p", "s", ":", "/", "/", "r", "p", "c">>

\* crate::utils::constants::ADDRESS_BABE1, the recipient of every outer
\* transaction
ADDRESS_BABE1 == <<"0", "x", "b", "a", "b", "e", "1">> \o Rep("0", 2 * AddrLen - 5)

\* the fixed gas parameters of the outer transaction, lines 87-89
OUTER_GAS_LIMIT == 490000000
OUTER_MAX_PRIORITY_FEE == 1000000000
OUTER_MAX_FEE == 2000000000

\* Url::parse as far as line 27 depends on it: a scheme, then "://"
UrlParses(s) ==
    \E i \in 2 .. Len(s) - 2 : s[i] = ":" /\ s[i + 1] = "/" /\ s[i + 2] = "/"

\* lines 26-30
create_evm_http_client(rpc_url) ==
    IF UrlParses(rpc_url) THEN Ok(rpc_url) ELSE Err("InvalidRpcUrl")

\* lines 81-89: the request of the outer transaction
OuterRequest(to, nonce, envelopes) ==
    [to |-> to, nonce |-> nonce, chain_id |-> CHAIN_ID, input |-> envelopes,
     value |-> 0, gas_limit |-> OUTER_GAS_LIMIT, gas_price |-> OUTER_MAX_FEE,
     max_priority_fee_per_gas |-> OUTER_MAX_PRIORITY_FEE,
     max_fee_per_gas |-> OUTER_MAX_FEE]

\* what get_transaction_count may answer
ChainNonces == {0, 3}

(***************************************************************************)
(* Inputs.                                                                 *)
(***************************************************************************)
AddrA == <<"0", "x">> \o Rep("a", 2 * AddrLen)
AddrB == Rep("1", AddrLen) \o Rep("B", AddrLen)
AddrBad == <<"n", "o", "p", "e">>

KeyGood == Rep("1", 2 * KeyLen)
KeyGood0x == <<"0", "x">> \o Rep("2", 2 * KeyLen)
KeyBad == <<"k", "e", "y">>
KeyZero == Rep("0", 2 * KeyLen)

Targets == {None, Some(AddrA), Some(AddrB), Some(AddrBad)}
Datas == {None, Some(<<>>), Some(<<1>>), Some(<<2, 3>>)}

\* Envelope, the leaf spec: an optional target string and an optional payload
Envelope(target, data) == [target |-> target, data |-> data]
Envelopes == {Envelope(t, d) : t \in Targets, d \in Datas}

\* the leaf specs create_bundle is run on
LeafSpecs ==
    {Envelope(Some(AddrA), Some(<<1>>)), Envelope(Some(AddrBad), Some(<<2, 3>>)),
     Envelope(None, None)}

RECURSIVE SeqsUpTo(_, _)
SeqsUpTo(S, n) ==
    IF n = 0 THEN {<<>>}
    ELSE LET shorter == SeqsUpTo(S, n - 1)
         IN  shorter \cup {Append(q, x) : q \in {r \in shorter : Len(r) = n - 1}, x \in S}

(***************************************************************************)
(* State.                                                                  *)
(***************************************************************************)
VARIABLES
    \* create_envelope called on its own
    ce_pc, ce_key, ce_input, ce_result,
    \* create_bundle
    envelope_inputs, private_key, pc, tasks, completed, results, envelopes,
    bundle, serialized, compressed, chain_nonce, sent, ret,
    \* retrieve_bundle_data
    calldata, rpc, byte_array, unbrotli, unborsh, checked, panic,
    \* the codec and compression pipeline on its own
    cd_pc, cd_bundle, cd_bytes, cd_out,
    \* retrieve_bundle_tx
    txid, fpc, fetched, fields, fret,
    \* generate_random_calldata
    length, gpc, gen_calldata

envVars == <<ce_pc, ce_key, ce_input, ce_result>>
createVars == <<envelope_inputs, private_key, pc, tasks, completed, results,
                envelopes, bundle, serialized, compressed, chain_nonce, sent, ret>>
retrieveVars == <<calldata, rpc, byte_array, unbrotli, unborsh, checked, panic>>
codecVars == <<cd_pc, cd_bundle, cd_bytes, cd_out>>
fetchVars == <<txid, fpc, fetched, fields, fret>>
genVars == <<length, gpc, gen_calldata>>
vars == <<envVars, createVars, retrieveVars, codecVars, fetchVars, genVars>>

Pending == Err("pending")

\* a TxEnvelopeWrapper with every field blank
BlankWrapper ==
    [nonce |-> 0, gas_limit |-> 0, gas_price |-> 0, to |-> ADDRESS_ZERO,
     value |-> 0, input |-> <<>>, signature |-> Rep(0, SigLen)]

\* the result of awaiting one spawned task: Ok(Ok(wrapper)), Ok(Err(e)), or a
\* JoinError when the task ended abnormally
TaskPending == [kind |-> "none", env |-> BlankWrapper, err |-> "-"]
TaskOk(w) == [kind |-> "env", env |-> w, err |-> "-"]
TaskErr(e) == [kind |-> "err", env |-> BlankWrapper, err |-> e]
TaskJoinError == [kind |-> "panic", env |-> BlankWrapper, err |-> "JoinError"]

NumLeaves == Len(envelope_inputs)

EnvOff ==
    /\ ce_pc = "off"
    /\ ce_key = None
    /\ ce_input = Envelope(None, None)
    /\ ce_result = Pending

CreateOff ==
    /\ envelope_inputs = <<>>
    /\ private_key = <<>>
    /\ pc = "off"
    /\ tasks = <<>>
    /\ completed = <<>>
    /\ results = <<>>
    /\ envelopes = <<>>
    /\ bundle = BundleDataFrom(<<>>)
    /\ serialized = <<>>
    /\ compressed = <<>>
    /\ chain_nonce = 0
    /\ sent = 0
    /\ ret = Pending

RetrieveOff ==
    /\ calldata = <<>>
    /\ rpc = "off"
    /\ byte_array = <<>>
    /\ unbrotli = <<>>
    /\ unborsh = BundleDataFrom(<<>>)
    /\ checked = 0
    /\ panic = "-"

CodecOff ==
    /\ cd_pc = "off"
    /\ cd_bundle = BundleDataFrom(<<>>)
    /\ cd_bytes = <<>>
    /\ cd_out = Pending

\* the answer of get_transaction_by_hash: not asked yet, no such transaction,
\* or the transaction as the JSON object of line 176
NotAsked == [st |-> "none", tx |-> <<>>]

\* the fields of lines 178-184, before they are extracted
NoFields == [block_hash |-> <<>>, block_number_dec |-> 0, calldata |-> <<>>,
             to |-> <<>>]

FetchOff ==
    /\ txid = <<>>
    /\ fpc = "off"
    /\ fetched = NotAsked
    /\ fields = NoFields
    /\ fret = Pending

GenOff ==
    /\ length = 0
    /\ gpc = "off"
    /\ gen_calldata = <<>>

(***************************************************************************)
(* create_envelope, called directly.                                       *)
(***************************************************************************)
EnvKeys == {None, Some(KeyGood), Some(KeyGood0x), Some(KeyBad), Some(KeyZero)}

EnvCall(k, e) ==
    /\ ce_pc = "idle"
    /\ ce_pc' = "called"
    /\ ce_key' = k
    /\ ce_input' = e
    /\ UNCHANGED <<ce_result, createVars, retrieveVars, codecVars, fetchVars, genVars>>

EnvReturn ==
    /\ ce_pc = "called"
    /\ ce_result' = create_envelope(ce_key, ce_input)
    /\ ce_pc' = "returned"
    /\ UNCHANGED <<ce_key, ce_input, createVars, retrieveVars, codecVars, fetchVars, genVars>>

InitEnvelope ==
    /\ ce_pc = "idle"
    /\ ce_key = None
    /\ ce_input = Envelope(None, None)
    /\ ce_result = Pending
    /\ CreateOff
    /\ RetrieveOff
    /\ CodecOff
    /\ FetchOff
    /\ GenOff

NextEnvelope ==
    \/ \E k \in EnvKeys, e \in Envelopes : EnvCall(k, e)
    \/ EnvReturn

SpecEnvelope == InitEnvelope /\ [][NextEnvelope]_vars

(***************************************************************************)
(* create_bundle                                                           *)
(***************************************************************************)
PrivateKeys == {KeyGood, KeyBad}

\* line 109: the client is built before anything is spawned
CreateClient ==
    /\ pc = "client"
    /\ LET provider == create_evm_http_client(WVM_RPC_URL)
       IN  IF provider.ok
           THEN pc' = "spawn" /\ ret' = ret
           ELSE pc' = "done" /\ ret' = Err(provider.err)
    /\ UNCHANGED <<envelope_inputs, private_key, tasks, completed, results,
                   envelopes, bundle, serialized, compressed, chain_nonce, sent,
                   envVars, retrieveVars, codecVars, fetchVars, genVars>>

\* a pool that runs at most two tasks
FanOutCapped(n) == IF n > 2 THEN 2 ELSE n

\* lines 114-129: into_iter().map(..).collect() spawns a task for every one
\* of the n inputs; nothing limits their number
FanOut(n) == n

\* lines 114-129: map/collect spawns the tasks one after the other, in input
\* order; a spawned task runs at once, beside the spawning loop
Spawn ==
    /\ pc = "spawn"
    /\ Len(tasks) < FanOut(NumLeaves)
    /\ tasks' = Append(tasks, [st |-> "running", signed |-> Pending,
                               res |-> TaskPending])
    /\ UNCHANGED <<envelope_inputs, private_key, pc, completed, results,
                   envelopes, bundle, serialized, compressed, chain_nonce, sent,
                   ret, envVars, retrieveVars, codecVars, fetchVars, genVars>>

\* line 129: collect() ends when the input is used up
Collected ==
    /\ pc = "spawn"
    /\ Len(tasks) = FanOut(NumLeaves)
    /\ pc' = "join"
    /\ UNCHANGED <<envelope_inputs, private_key, tasks, completed, results,
                   envelopes, bundle, serialized, compressed, chain_nonce, sent,
                   ret, envVars, retrieveVars, codecVars, fetchVars, genVars>>

\* lines 119-127: the body of task i runs to its end
TaskBody(i) ==
    LET r == create_envelope(Some(private_key), envelope_inputs[i])
    IN  [st |-> "finished", signed |-> r,
         res |-> IF r.ok THEN TaskOk(from_envelope(r.val)) ELSE TaskErr(r.err)]

TaskComplete(i) ==
    /\ i \in 1 .. Len(tasks)
    /\ tasks[i].st = "running"
    /\ tasks' = [tasks EXCEPT ![i] = TaskBody(i)]
    /\ completed' = Append(completed, i)
    /\ UNCHANGED <<envelope_inputs, private_key, pc, results, envelopes, bundle,
                   serialized, compressed, chain_nonce, sent, ret, envVars, retrieveVars, codecVars, fetchVars, genVars>>

\* lines 121-124: the Ok arm prints and wraps; a panic there (println! on a
\* closed stdout) ends the task abnormally, and its JoinHandle yields a JoinError
TaskPanic(i) ==
    /\ i \in 1 .. Len(tasks)
    /\ tasks[i].st = "running"
    /\ LET r == create_envelope(Some(private_key), envelope_inputs[i])
       IN  /\ r.ok
           /\ tasks' = [tasks EXCEPT ![i] = [st |-> "finished", signed |-> r,
                                             res |-> TaskJoinError]]
    /\ completed' = Append(completed, i)
    /\ UNCHANGED <<envelope_inputs, private_key, pc, results, envelopes, bundle,
                   serialized, compressed, chain_nonce, sent, ret, envVars, retrieveVars, codecVars, fetchVars, genVars>>

\* a join that gives up at the first failed task, as try_join_all does
JoinReadyFailFast ==
    \/ \A i \in 1 .. Len(tasks) : tasks[i].st = "finished"
    \/ \E i \in 1 .. Len(tasks) :
          tasks[i].st = "finished" /\ tasks[i].res.kind # "env"

\* line 132: join_all is ready when every handle has its output
JoinReady == \A i \in 1 .. Len(tasks) : tasks[i].st = "finished"

\* outputs taken in the order the tasks ended in, as FuturesUnordered does
CompletionOrder(n, order) == order

\* line 132: join_all yields the outputs in the order of the handles it was
\* given, whatever the order the tasks ended in
JoinAllOrder(n, order) == [i \in 1 .. n |-> i]

\* a filter that drops the signing errors only, and lets the output of a
\* task that ended abnormally through as a blank envelope
KeepUnlessSigningError(r) == r.kind \in {"env", "panic"}

\* a filter that drops only the tasks that ended abnormally
KeepUnlessJoinError(r) == r.kind \in {"env", "err"}

\* lines 135-136: r.ok() twice keeps Ok(Ok(wrapper)) only
KeepResult(r) == r.kind = "env"

\* a collect that stops at the first result that is not Ok(Ok(wrapper))
RECURSIVE TakeWhileOk(_)
TakeWhileOk(rs) ==
    IF rs = <<>> \/ ~KeepResult(Head(rs)) THEN <<>>
    ELSE <<Head(rs).env>> \o TakeWhileOk(Tail(rs))

\* lines 133-137: filter_map and collect
RECURSIVE FilterMapOk(_)
FilterMapOk(rs) ==
    IF rs = <<>> THEN <<>>
    ELSE IF KeepResult(Head(rs)) THEN <<Head(rs).env>> \o FilterMapOk(Tail(rs))
    ELSE FilterMapOk(Tail(rs))

\* lines 132-137
Join ==
    /\ pc = "join"
    /\ JoinReady
    /\ LET order == JoinAllOrder(Len(tasks), completed)
           rs == [j \in 1 .. Len(order) |-> tasks[order[j]].res]
       IN  /\ results' = rs
           /\ envelopes' = FilterMapOk(rs)
    /\ pc' = "encode"
    /\ UNCHANGED <<envelope_inputs, private_key, tasks, completed, bundle,
                   serialized, compressed, chain_nonce, sent, ret, envVars, retrieveVars, codecVars, fetchVars, genVars>>

\* compression left out
CompressSkipped(bytes) == bytes

\* line 140
SerializeStep(b) == borsh_ser(b)

\* line 141
CompressStep(bytes) == brotli_compress(bytes)

\* lines 139-141
Encode ==
    /\ pc = "encode"
    /\ bundle' = BundleDataFrom(envelopes)
    /\ serialized' = SerializeStep(BundleDataFrom(envelopes))
    /\ compressed' = CompressStep(SerializeStep(BundleDataFrom(envelopes)))
    /\ pc' = "broadcast"
    /\ UNCHANGED <<envelope_inputs, private_key, tasks, completed, results,
                   envelopes, chain_nonce, sent, ret, envVars, retrieveVars, codecVars, fetchVars, genVars>>

(***************************************************************************)
(* broadcast_bundle, called at line 144 with Some(private_key).            *)
(***************************************************************************)
\* lines 74-76: the key is parsed again; a failure leaves through `?`
BroadcastSigner ==
    /\ pc = "broadcast"
    /\ IF ParseSigner(private_key).ok
       THEN pc' = "nonce" /\ ret' = ret
       ELSE pc' = "done" /\ ret' = Err(ParseSigner(private_key).err)
    /\ UNCHANGED <<envelope_inputs, private_key, tasks, completed, results,
                   envelopes, bundle, serialized, compressed, chain_nonce, sent,
                   envVars, retrieveVars, codecVars, fetchVars, genVars>>

\* lines 77-79: get_transaction_count answers
BroadcastNonce(n) ==
    /\ pc = "nonce"
    /\ chain_nonce' = n
    /\ pc' = "send"
    /\ UNCHANGED <<envelope_inputs, private_key, tasks, completed, results,
                   envelopes, bundle, serialized, compressed, sent, ret, envVars, retrieveVars, codecVars, fetchVars, genVars>>

\* lines 77-79: get_transaction_count fails, and `?` returns the error
BroadcastNonceFails ==
    /\ pc = "nonce"
    /\ pc' = "done"
    /\ ret' = Err("TransportError")
    /\ UNCHANGED <<envelope_inputs, private_key, tasks, completed, results,
                   envelopes, bundle, serialized, compressed, chain_nonce, sent,
                   envVars, retrieveVars, codecVars, fetchVars, genVars>>

\* lines 81-90: the outer transaction, built and signed
OuterTx ==
    BuildTx(OuterRequest(ParseAddress(ADDRESS_BABE1).val, chain_nonce, compressed),
            ParseSigner(private_key).val)

\* a failed send tried again
RetrySend == "send"

\* where create_bundle goes when send_tx_envelope fails: lines 94 and 144
\* pass the error up with `?`
AfterSendError == "done"

\* line 94: send_tx_envelope accepts the transaction; lines 96 and 146
BroadcastSend ==
    /\ pc = "send"
    /\ sent' = sent + 1
    /\ pc' = "done"
    /\ ret' = Ok(OuterTx)
    /\ UNCHANGED <<envelope_inputs, private_key, tasks, completed, results,
                   envelopes, bundle, serialized, compressed, chain_nonce,
                   envVars, retrieveVars, codecVars, fetchVars, genVars>>

\* line 94: send_tx_envelope fails
BroadcastSendFails ==
    /\ pc = "send"
    /\ sent' = sent + 1
    /\ pc' = AfterSendError
    /\ ret' = Err("TransportError")
    /\ UNCHANGED <<envelope_inputs, private_key, tasks, completed, results,
                   envelopes, bundle, serialized, compressed, chain_nonce,
                   envVars, retrieveVars, codecVars, fetchVars, genVars>>

InitCreate ==
    /\ EnvOff
    /\ envelope_inputs \in SeqsUpTo(LeafSpecs, MaxLeaves)
    /\ private_key \in PrivateKeys
    /\ pc = "client"
    /\ tasks = <<>>
    /\ completed = <<>>
    /\ results = <<>>
    /\ envelopes = <<>>
    /\ bundle = BundleDataFrom(<<>>)
    /\ serialized = <<>>
    /\ compressed = <<>>
    /\ chain_nonce = 0
    /\ sent = 0
    /\ ret = Pending
    /\ RetrieveOff
    /\ CodecOff
    /\ FetchOff
    /\ GenOff

NextCreate ==
    \/ CreateClient
    \/ Spawn
    \/ Collected
    \/ \E i \in 1 .. MaxLeaves : TaskComplete(i)
    \/ \E i \in 1 .. MaxLeaves : TaskPanic(i)
    \/ Join
    \/ Encode
    \/ BroadcastSigner
    \/ \E n \in ChainNonces : BroadcastNonce(n)
    \/ BroadcastNonceFails
    \/ BroadcastSend
    \/ BroadcastSendFails

SpecCreate == InitCreate /\ [][NextCreate]_vars

\* create_bundle called with leaf specs of the two kinds that decide how a
\* task can end: one that is signed, one that is refused for want of a payload
InitCreateLive ==
    /\ InitCreate
    /\ \A i \in 1 .. NumLeaves :
          envelope_inputs[i] \in {Envelope(Some(AddrA), Some(<<1>>)),
                                 Envelope(None, None)}

\* the steps create_bundle takes by itself once the runtime polls it: none of
\* them waits for a task or for the gateway
LocalStep ==
    \/ CreateClient
    \/ Spawn
    \/ Collected
    \/ Join
    \/ Encode
    \/ BroadcastSigner

\* the runtime keeps polling create_bundle while it can make progress; when a
\* spawned task ends, and when the gateway answers, is left open
SpecCreateLive == InitCreateLive /\ [][NextCreate]_vars /\ WF_vars(LocalStep)

(***************************************************************************)
(* retrieve_bundle_data                                                    *)
(***************************************************************************)
\* envelopes as they may come off the wire, well-formed or not
WireEnvelope(nonce, gas_limit, gas_price, value, input) ==
    [nonce |-> nonce, gas_limit |-> gas_limit, gas_price |-> gas_price,
     to |-> ParseAddress(AddrA).val, value |-> value, input |-> input,
     signature |-> [i \in 1 .. SigLen |-> (nonce + gas_price + i) % 256]]

WireEnvelopes ==
    {WireEnvelope(0, 0, 0, 0, <<1>>), WireEnvelope(0, 0, 0, 5, <<>>),
     WireEnvelope(1, 0, 0, 0, <<2, 3>>), WireEnvelope(0, 300, 0, 0, <<1>>),
     WireEnvelope(0, 0, 7, 0, <<4>>)}

WireBundles == {BundleDataFrom(es) : es \in SeqsUpTo(WireEnvelopes, MaxBundle)}

\* the input field of a fetched transaction: 0x and the bytes in hex
ToCalldata(bytes) == <<"0", "x">> \o HexEncode(bytes)

\* calldata that carries a bundle, as create_bundle lays it out
GoodCalldata == {ToCalldata(brotli_compress(borsh_ser(b))) : b \in WireBundles}

\* calldata that is no hex, no compressed stream, or no bundle
BadCalldata ==
    LET b == BundleDataFrom(<<WireEnvelope(0, 0, 0, 0, <<1>>)>>)
        ser == borsh_ser(b)
    IN  {<<"0", "x", "z", "z">>,
         <<"0", "x", "a">>,
         ToCalldata(<<0, 5>>),
         ToCalldata(<<3>>),
         ToCalldata(brotli_compress(SubSeq(ser, 1, Len(ser) - 1))),
         ToCalldata(brotli_compress(ser \o <<9>>)),
         ToCalldata(<<>>)}

\* calldata with the prefix twice, or without it
OddlyPrefixedCalldata ==
    LET c == ToCalldata(brotli_compress(borsh_ser(BundleDataFrom(<<>>))))
    IN  {<<"0", "x">> \o c, SubSeq(c, 3, Len(c))}

Calldatas == GoodCalldata \cup BadCalldata \cup OddlyPrefixedCalldata

\* line 197: brotli_decompress
DecompressStep(bytes) == Decompress(bytes)

\* line 198: borsh_der
DecodeStep(bytes) == DecodeBundle(bytes)

\* a validator that forgets the gas price
EnvelopeMustsNoGasPrice(e) == e.nonce = 0 /\ e.gas_limit = 0

\* lines 201-203: the three assertions on one envelope
EnvelopeMusts(e) == e.nonce = 0 /\ e.gas_limit = 0 /\ e.gas_price = 0

\* the assertion that fails first, in the order of lines 201-203
FailedAssert(e) ==
    IF e.nonce # 0 THEN "nonce"
    ELSE IF e.gas_limit # 0 THEN "gas_limit" ELSE "gas_price"

\* line 196: the prefix trimmed, the hex decoded; expect() panics on an error
RetrieveHex ==
    /\ rpc = "hex"
    /\ LET d == HexDecode(TrimStartMatches0x(calldata))
       IN  IF d.ok
           THEN byte_array' = d.val /\ rpc' = "decompress" /\ panic' = panic
           ELSE byte_array' = byte_array /\ rpc' = "panicked"
                /\ panic' = "decoding failed"
    /\ UNCHANGED <<calldata, unbrotli, unborsh, checked, envVars, createVars,
                   codecVars, fetchVars, genVars>>

\* line 197: brotli_decompress returns bytes, not a Result: a stream it
\* cannot read ends the call by a panic
RetrieveDecompress ==
    /\ rpc = "decompress"
    /\ LET d == DecompressStep(byte_array)
       IN  IF d.ok
           THEN unbrotli' = d.val /\ rpc' = "decode" /\ panic' = panic
           ELSE unbrotli' = unbrotli /\ rpc' = "panicked" /\ panic' = d.err
    /\ UNCHANGED <<calldata, byte_array, unborsh, checked, envVars, createVars,
                   codecVars, fetchVars, genVars>>

\* line 198: borsh_der returns a BundleData, not a Result: bytes it cannot
\* read end the call by a panic
RetrieveDecode ==
    /\ rpc = "decode"
    /\ LET d == DecodeStep(unbrotli)
       IN  IF d.ok
           THEN unborsh' = d.val /\ rpc' = "validate" /\ panic' = panic
           ELSE unborsh' = unborsh /\ rpc' = "panicked" /\ panic' = d.err
    /\ UNCHANGED <<calldata, byte_array, unbrotli, checked, envVars, createVars,
                   codecVars, fetchVars, genVars>>

\* lines 200-204: one turn of the loop; a failed assert_eq! panics
RetrieveAssert ==
    /\ rpc = "validate"
    /\ checked < Len(unborsh.envelopes)
    /\ LET e == unborsh.envelopes[checked + 1]
       IN  IF EnvelopeMusts(e)
           THEN checked' = checked + 1 /\ rpc' = rpc /\ panic' = panic
           ELSE checked' = checked /\ rpc' = "panicked" /\ panic' = FailedAssert(e)
    /\ UNCHANGED <<calldata, byte_array, unbrotli, unborsh, envVars, createVars,
                   codecVars, fetchVars, genVars>>

\* line 206: the loop is over, the bundle is returned
RetrieveReturn ==
    /\ rpc = "validate"
    /\ checked = Len(unborsh.envelopes)
    /\ rpc' = "returned"
    /\ UNCHANGED <<calldata, byte_array, unbrotli, unborsh, checked, panic,
                   envVars, createVars, codecVars, fetchVars, genVars>>

InitRetrieve ==
    /\ EnvOff
    /\ CreateOff
    /\ CodecOff
    /\ FetchOff
    /\ GenOff
    /\ calldata \in Calldatas
    /\ rpc = "hex"
    /\ byte_array = <<>>
    /\ unbrotli = <<>>
    /\ unborsh = BundleDataFrom(<<>>)
    /\ checked = 0
    /\ panic = "-"

NextRetrieve ==
    \/ RetrieveHex
    \/ RetrieveDecompress
    \/ RetrieveDecode
    \/ RetrieveAssert
    \/ RetrieveReturn

SpecRetrieve == InitRetrieve /\ [][NextRetrieve]_vars

(***************************************************************************)
(* The create pipeline (lines 139-141) followed by the retrieve pipeline   *)
(* (lines 197-198), on any bundle.                                         *)
(***************************************************************************)
CodecSerialize ==
    /\ cd_pc = "bundle"
    /\ cd_bytes' = SerializeStep(cd_bundle)
    /\ cd_pc' = "serialized"
    /\ UNCHANGED <<cd_bundle, cd_out, envVars, createVars, retrieveVars, fetchVars, genVars>>

CodecCompress ==
    /\ cd_pc = "serialized"
    /\ cd_bytes' = CompressStep(cd_bytes)
    /\ cd_pc' = "compressed"
    /\ UNCHANGED <<cd_bundle, cd_out, envVars, createVars, retrieveVars, fetchVars, genVars>>

CodecDecompress ==
    /\ cd_pc = "compressed"
    /\ LET d == DecompressStep(cd_bytes)
       IN  IF d.ok
           THEN cd_bytes' = d.val /\ cd_pc' = "decompressed" /\ cd_out' = cd_out
           ELSE cd_bytes' = cd_bytes /\ cd_pc' = "failed" /\ cd_out' = d
    /\ UNCHANGED <<cd_bundle, envVars, createVars, retrieveVars, fetchVars, genVars>>

CodecDecode ==
    /\ cd_pc = "decompressed"
    /\ cd_out' = DecodeStep(cd_bytes)
    /\ cd_pc' = IF DecodeStep(cd_bytes).ok THEN "decoded" ELSE "failed"
    /\ UNCHANGED <<cd_bundle, cd_bytes, envVars, createVars, retrieveVars, fetchVars, genVars>>

InitCodec ==
    /\ EnvOff
    /\ CreateOff
    /\ RetrieveOff
    /\ FetchOff
    /\ GenOff
    /\ cd_pc = "bundle"
    /\ cd_bundle \in WireBundles
    /\ cd_bytes = <<>>
    /\ cd_out = Pending

NextCodec ==
    \/ CodecSerialize
    \/ CodecCompress
    \/ CodecDecompress
    \/ CodecDecode

SpecCodec == InitCodec /\ [][NextCodec]_vars

(***************************************************************************)
(* The create path followed by the retrieve path: the outer transaction    *)
(* create_bundle sent is fetched, and its input, as the hex string of      *)
(* lines 181-189, is handed to retrieve_bundle_data.                       *)
(***************************************************************************)
Publish ==
    /\ pc = "done"
    /\ ret.ok
    /\ rpc = "off"
    /\ calldata' = ToCalldata(ret.val.input)
    /\ rpc' = "hex"
    /\ UNCHANGED <<byte_array, unbrotli, unborsh, checked, panic, envVars,
                   createVars, codecVars, fetchVars, genVars>>

NextEndToEnd ==
    \/ NextCreate
    \/ Publish
    \/ NextRetrieve

\* create_bundle called with a credential that parses and leaf specs that
\* all have a payload
InitEndToEnd ==
    /\ InitCreate
    /\ private_key = KeyGood
    /\ \A i \in 1 .. NumLeaves : envelope_inputs[i].data.some

SpecEndToEnd == InitEndToEnd /\ [][NextEndToEnd]_vars

(***************************************************************************)
(* retrieve_bundle_tx.                                                     *)
(***************************************************************************)
HashLen == 32

\* B256::from_str: 64 hex digits, with or without the 0x prefix
ParseB256(s) ==
    LET body == StripPrefix0x(s)
    IN IF Len(body) # 2 * HashLen THEN Err("InvalidStringLength")
       ELSE IF \E i \in 1 .. Len(body) : ~IsHexChar(body[i])
            THEN Err("InvalidHexCharacter")
       ELSE Ok(HexDecode(body).val)

DecDigits == <<"0", "1", "2", "3", "4", "5", "6", "7", "8", "9">>

\* U256::from_str chooses the radix by the prefix: 0x is 16, and 10 without
\* one
RadixOf(s) == IF HasPrefix0x(s) THEN 16 ELSE 10

IsDigitOf(c, radix) == IsHexChar(c) /\ HexVal(c) < radix

RECURSIVE DigitsValue(_, _)
DigitsValue(ds, radix) ==
    IF ds = <<>> THEN 0
    ELSE DigitsValue(SubSeq(ds, 1, Len(ds) - 1), radix) * radix
         + HexVal(ds[Len(ds)])

\* U256::from_str: no digits at all is zero, a character that is not a digit
\* of the radix is an error
ParseU256(s) ==
    LET body == StripPrefix0x(s)
    IN IF \E i \in 1 .. Len(body) : ~IsDigitOf(body[i], RadixOf(s))
       THEN Err("InvalidDigit")
       ELSE Ok(DigitsValue(body, RadixOf(s)))

\* U256's Display: decimal, no leading zeros, "0" for zero
RECURSIVE ToDecimalString(_)
ToDecimalString(n) ==
    IF n < 10 THEN <<DecDigits[n + 1]>>
    ELSE ToDecimalString(n \div 10) \o <<DecDigits[(n % 10) + 1]>>

ZeroAddressString == <<"0", "x">> \o Rep("0", 2 * AddrLen)

\* as_str().unwrap_or(default) on a field of the JSON object
StrOrNothing(field, default) == IF field.some THEN field.val ELSE <<>>

StrOr(field, default) == IF field.some THEN field.val ELSE default

\* unwrap_or_default in place of ok_or_eyre and the ? of line 176
TxOrBlank(answer) ==
    Ok([blockHash |-> None, blockNumber |-> None, input |-> None, to |-> None])

\* lines 175-176: .ok_or_eyre("error retrieving tx"), then tx?
TxOrEyre(answer) ==
    IF answer.st = "present" THEN Ok(answer.tx) ELSE Err("error retrieving tx")

\* BundleTxMetadata::from(block_number, block_hash, calldata, to)
BundleTxMetadataFrom(block_number, block_hash, cd, to) ==
    [block_number |-> block_number, block_hash |-> block_hash,
     calldata |-> cd, to |-> to]

TxidGood == <<"0", "x">> \o Rep("a", 2 * HashLen)
TxidBare == Rep("B", 2 * HashLen)
TxidShort == <<"0", "x", "1", "2">>
Txids == {TxidGood, TxidBare, TxidShort}

BlockHashA == <<"0", "x">> \o Rep("c", 2 * HashLen)

\* the transaction as serde_json renders it; a field that is null or missing
\* is None
BlockHashFields == {None, Some(BlockHashA)}
BlockNumberFields ==
    {None, Some(<<"0", "x", "1", "a">>), Some(<<"0", "x">>),
     Some(<<"0", "x", "F", "f">>), Some(<<"2", "6">>), Some(<<"z", "z">>),
     Some(<<"1", "a">>)}
InputFields == {None, Some(<<"0", "x">>), Some(<<"0", "x", "z", "z">>),
                Some(ToCalldata(brotli_compress(borsh_ser([envelopes |-> <<>>]))))}
ToFields == {None, Some(ADDRESS_BABE1)}

TxJsons ==
    [blockHash : BlockHashFields, blockNumber : BlockNumberFields,
     input : InputFields, to : ToFields]

\* retrieve_bundle_tx is called with a transaction id
FetchCall ==
    /\ fpc = "idle"
    /\ \E t \in Txids : txid' = t
    /\ fpc' = "client"
    /\ UNCHANGED <<fetched, fields, fret, envVars, createVars, retrieveVars,
                   codecVars, genVars>>

\* line 170
FetchClient ==
    /\ fpc = "client"
    /\ LET provider == create_evm_http_client(WVM_RPC_URL)
       IN IF provider.ok
          THEN fpc' = "parse" /\ fret' = fret
          ELSE fpc' = "done" /\ fret' = Err(provider.err)
    /\ UNCHANGED <<txid, fetched, fields, envVars, createVars, retrieveVars,
                   codecVars, genVars>>

\* line 171
FetchParseTxid ==
    /\ fpc = "parse"
    /\ LET h == ParseB256(txid)
       IN IF h.ok
          THEN fpc' = "get" /\ fret' = fret
          ELSE fpc' = "done" /\ fret' = Err(h.err)
    /\ UNCHANGED <<txid, fetched, fields, envVars, createVars, retrieveVars,
                   codecVars, genVars>>

\* lines 172-174: the gateway knows the transaction
FetchGetSome ==
    /\ fpc = "get"
    /\ \E tx \in TxJsons : fetched' = [st |-> "present", tx |-> tx]
    /\ fpc' = "unwrap"
    /\ UNCHANGED <<txid, fields, fret, envVars, createVars, retrieveVars,
                   codecVars, genVars>>

\* lines 172-174: the gateway answers that there is no such transaction
FetchGetNone ==
    /\ fpc = "get"
    /\ fetched' = [st |-> "absent", tx |-> <<>>]
    /\ fpc' = "unwrap"
    /\ UNCHANGED <<txid, fields, fret, envVars, createVars, retrieveVars,
                   codecVars, genVars>>

\* lines 172-174: the request itself fails
FetchGetFails ==
    /\ fpc = "get"
    /\ fret' = Err("RpcError")
    /\ fpc' = "done"
    /\ UNCHANGED <<txid, fetched, fields, envVars, createVars, retrieveVars,
                   codecVars, genVars>>

\* lines 175-176
FetchUnwrap ==
    /\ fpc = "unwrap"
    /\ LET tx == TxOrEyre(fetched)
       IN IF tx.ok
          THEN fpc' = "extract" /\ fret' = fret
          ELSE fpc' = "done" /\ fret' = Err(tx.err)
    /\ UNCHANGED <<txid, fetched, fields, envVars, createVars, retrieveVars,
                   codecVars, genVars>>

\* lines 178-184
FetchExtract ==
    /\ fpc = "extract"
    /\ LET tx_json == TxOrEyre(fetched).val
           block_number_hex == StrOr(tx_json.blockNumber, <<"0", "x">>)
           parsed == ParseU256(block_number_hex)
       IN fields' =
            [block_hash |-> StrOr(tx_json.blockHash, <<"0", "x">>),
             block_number_dec |-> IF parsed.ok THEN parsed.val ELSE 0,
             calldata |-> StrOr(tx_json.input, <<"0", "x">>),
             to |-> StrOr(tx_json.to, ZeroAddressString)]
    /\ fpc' = "build"
    /\ UNCHANGED <<txid, fetched, fret, envVars, createVars, retrieveVars,
                   codecVars, genVars>>

\* lines 186-192
FetchReturn ==
    /\ fpc = "build"
    /\ fret' = Ok(BundleTxMetadataFrom(ToDecimalString(fields.block_number_dec),
                                       fields.block_hash, fields.calldata,
                                       fields.to))
    /\ fpc' = "done"
    /\ UNCHANGED <<txid, fetched, fields, envVars, createVars, retrieveVars,
                   codecVars, genVars>>

InitFetch ==
    /\ EnvOff
    /\ CreateOff
    /\ RetrieveOff
    /\ CodecOff
    /\ GenOff
    /\ txid = <<>>
    /\ fpc = "idle"
    /\ fetched = NotAsked
    /\ fields = NoFields
    /\ fret = Pending

NextFetch ==
    \/ FetchCall
    \/ FetchClient
    \/ FetchParseTxid
    \/ FetchGetSome
    \/ FetchGetNone
    \/ FetchGetFails
    \/ FetchUnwrap
    \/ FetchExtract
    \/ FetchReturn

SpecFetch == InitFetch /\ [][NextFetch]_vars

(***************************************************************************)
(* generate_random_calldata.                                               *)
(***************************************************************************)
\* line 153
min_length == 10

\* a length taken as it is asked for
RequestedLength(len) == len

\* line 154: length.max(min_length)
ActualLength(len) == IF len > min_length THEN len ELSE min_length

\* format!("{:x}", n): lowercase hexadecimal, no prefix, no padding
RECURSIVE LowerHex(_)
LowerHex(n) ==
    IF n < 16 THEN <<HexDigits[n + 1]>>
    ELSE LowerHex(n \div 16) \o <<HexDigits[(n % 16) + 1]>>

\* the lengths asked for, and the numbers rng.gen_range(0..16) is let to draw
Lengths == {0, 3, min_length, MaxCalldataLen}
RandomDraws == {0, 10, 15}

GenCall ==
    /\ gpc = "idle"
    /\ \E n \in Lengths : length' = n
    /\ gpc' = "start"
    /\ UNCHANGED <<gen_calldata, envVars, createVars, retrieveVars, codecVars,
                   fetchVars>>

\* lines 153-158
GenPrefix ==
    /\ gpc = "start"
    /\ gen_calldata' = <<"0", "x">>
    /\ gpc' = "loop"
    /\ UNCHANGED <<length, envVars, createVars, retrieveVars, codecVars,
                   fetchVars>>

\* lines 161-164: one turn of the loop over 2..actual_length; the string is
\* two characters long before the first turn
GenPush ==
    /\ gpc = "loop"
    /\ Len(gen_calldata) < ActualLength(length)
    /\ \E random_hex \in RandomDraws :
          gen_calldata' = gen_calldata \o LowerHex(random_hex)
    /\ UNCHANGED <<length, gpc, envVars, createVars, retrieveVars, codecVars,
                   fetchVars>>

\* line 166: the loop is over
GenReturn ==
    /\ gpc = "loop"
    /\ Len(gen_calldata) >= ActualLength(length)
    /\ gpc' = "returned"
    /\ UNCHANGED <<length, gen_calldata, envVars, createVars, retrieveVars,
                   codecVars, fetchVars>>

InitGen ==
    /\ EnvOff
    /\ CreateOff
    /\ RetrieveOff
    /\ CodecOff
    /\ FetchOff
    /\ length = 0
    /\ gpc = "idle"
    /\ gen_calldata = <<>>

NextGen ==
    \/ GenCall
    \/ GenPrefix
    \/ GenPush
    \/ GenReturn

SpecGen == InitGen /\ [][NextGen]_vars

\* create_envelope on its own, or one create_bundle call
Init == InitEnvelope \/ InitCreate

Next == NextEnvelope \/ NextCreate

Spec == Init /\ [][Next]_vars

(***************************************************************************)
(* Properties of create_bundle.                                            *)
(***************************************************************************)
PostEncode == {"broadcast", "nonce", "send", "done"}
PostJoin == {"encode"} \cup PostEncode

AllSpawned == Len(tasks) = NumLeaves
AllFinished == \A i \in 1 .. Len(tasks) : tasks[i].st = "finished"

\* the leaves whose task ended with a signed envelope, and the others
SucceededLeaves == {i \in 1 .. Len(tasks) : tasks[i].res.kind = "env"}
FailedLeaves == (1 .. Len(tasks)) \ SucceededLeaves

\* es lists, in increasing order of leaf index, exactly the envelopes of the
\* leaves that succeeded
InInputOrder(es) ==
    /\ Len(es) = Cardinality(SucceededLeaves)
    /\ \E f \in [1 .. Len(es) -> 1 .. Len(tasks)] :
          /\ \A j, k \in 1 .. Len(es) : j < k => f[j] < f[k]
          /\ \A j \in 1 .. Len(es) :
                f[j] \in SucceededLeaves /\ es[j] = tasks[f[j]].res.env

\* C1: whatever the order the signing tasks end in, the assembled bundle lists
\* the envelopes of the tasks that succeeded in the relative order of their
\* leaf specs in the input; a failed leaf is left out and moves nothing.
C1_OrderPreserved ==
    /\ pc \in PostJoin => InInputOrder(envelopes)
    /\ pc \in PostEncode => InInputOrder(bundle.envelopes)

\* three leaves, the middle one failed, the last task ended first
C1_Witness ==
    /\ pc = "done"
    /\ NumLeaves = 3
    /\ SucceededLeaves = {1, 3}
    /\ completed[1] = 3
    /\ Len(bundle.envelopes) = 2
    /\ bundle.envelopes[1] # bundle.envelopes[2]

\* C2: with K leaves of which M < K failed, the bundle has exactly K - M
\* envelopes, and create_bundle ends without an error of a failed leaf.
C2_PartialFailure ==
    (AllSpawned /\ Cardinality(FailedLeaves) < NumLeaves) =>
        /\ pc \in PostJoin =>
              Len(envelopes) = NumLeaves - Cardinality(FailedLeaves)
        /\ pc \in PostEncode =>
              Len(bundle.envelopes) = NumLeaves - Cardinality(FailedLeaves)
        /\ pc = "done" =>
              \/ ret.ok
              \/ ret.err \notin {tasks[i].res.err : i \in FailedLeaves}

C2_Witness ==
    /\ pc = "done"
    /\ ret.ok
    /\ NumLeaves = 3
    /\ Cardinality(FailedLeaves) = 2
    /\ tasks[1].res.kind = "err"
    /\ Len(ret.val.input) > 0
    /\ Len(bundle.envelopes) = 1

\* C3: nothing is assembled, encoded or broadcast, and create_bundle does not
\* return, while a spawned signing task has not ended: every leaf has been
\* spawned and every task has its outcome by then.
C3_JoinBeforeBroadcast ==
    /\ pc \in PostJoin => AllSpawned /\ AllFinished
    /\ sent > 0 => AllSpawned /\ AllFinished
    /\ ret # Pending => AllSpawned /\ AllFinished

\* a bundle sent after a leaf failed and a later one succeeded
C3_Witness ==
    /\ pc = "done"
    /\ sent = 1
    /\ NumLeaves >= 2
    /\ tasks[1].res.kind = "err"
    /\ tasks[2].res.kind = "env"
    /\ completed[1] = 1

(***************************************************************************)
(* Properties of create_envelope.                                          *)
(***************************************************************************)
SentinelZero(e) == e.nonce = 0 /\ e.gas_limit = 0 /\ e.gas_price = 0

\* the fields of an envelope signed for leaf spec l, but for its target
LeafFields(e, l) ==
    /\ SentinelZero(e)
    /\ e.value = 0
    /\ e.chain_id = CHAIN_ID
    /\ l.data.some
    /\ e.input = l.data.val

\* the target is the address the leaf spec's string denotes, the zero
\* address when the spec has no target or a target that is no address
TargetParsedOrZero(e, l) ==
    IF l.target.some
    THEN \E a \in {ParseAddress(l.target.val)} :
            e.to = (IF a.ok THEN a.val ELSE ADDRESS_ZERO)
    ELSE e.to = ADDRESS_ZERO

\* the target is the leaf spec's address whenever the spec gives one
TargetAsGiven(e, l) ==
    IF l.target.some
    THEN ParseAddress(l.target.val).ok /\ e.to = ParseAddress(l.target.val).val
    ELSE e.to = ADDRESS_ZERO

BundleSentinelZero ==
    /\ \A j \in 1 .. Len(envelopes) : SentinelZero(envelopes[j])
    /\ \A j \in 1 .. Len(bundle.envelopes) : SentinelZero(bundle.envelopes[j])

\* C6 as amended: an envelope create_envelope returns has nonce, gas_limit,
\* gas_price and value 0, the fixed chain id, the leaf spec's payload, and
\* as target the leaf spec's address when one is given and parses as an
\* address, the zero address otherwise; every envelope of an assembled
\* bundle has nonce, gas_limit and gas_price 0.
C6_EnvelopeFields ==
    /\ (ce_pc = "returned" /\ ce_result.ok) =>
          /\ LeafFields(ce_result.val, ce_input)
          /\ TargetParsedOrZero(ce_result.val, ce_input)
    /\ \A i \in 1 .. Len(tasks) :
          tasks[i].signed.ok =>
              /\ LeafFields(tasks[i].signed.val, envelope_inputs[i])
              /\ TargetParsedOrZero(tasks[i].signed.val, envelope_inputs[i])
    /\ BundleSentinelZero

\* an envelope signed for a leaf whose target string is no address
C6_Witness ==
    /\ ce_pc = "returned"
    /\ ce_result.ok
    /\ ce_input.target = Some(AddrBad)
    /\ ce_input.data = Some(<<2, 3>>)
    /\ ce_result.val.to = ADDRESS_ZERO
    /\ ce_result.val.input = <<2, 3>>

\* C6 as stated: the same, with the target equal to the leaf spec's address
\* whenever one is given.
C6_Original ==
    /\ (ce_pc = "returned" /\ ce_result.ok) =>
          /\ LeafFields(ce_result.val, ce_input)
          /\ TargetAsGiven(ce_result.val, ce_input)
    /\ \A i \in 1 .. Len(tasks) :
          tasks[i].signed.ok =>
              /\ LeafFields(tasks[i].signed.val, envelope_inputs[i])
              /\ TargetAsGiven(tasks[i].signed.val, envelope_inputs[i])
    /\ BundleSentinelZero

CredentialParses == ce_key.some /\ ParseSigner(ce_key.val).ok

\* C7 as amended: create_envelope fails with CredentialRequired
\* (PrivateKeyNeeded) if no credential is supplied, with CredentialInvalid
\* (PrivateKeyParsingError) if the supplied credential cannot be parsed, and
\* with DataRequired if the payload is absent and the credential is supplied
\* and parses; in each of these cases no envelope is produced.
C7_EnvelopeErrors ==
    ce_pc = "returned" =>
        /\ ~ce_key.some => ~ce_result.ok /\ ce_result.err = "PrivateKeyNeeded"
        /\ (ce_key.some /\ ~CredentialParses) =>
              ~ce_result.ok /\ ce_result.err = "PrivateKeyParsingError"
        /\ (CredentialParses /\ ~ce_input.data.some) =>
              ~ce_result.ok /\ ce_result.err = "Data Required"

\* a good credential and no payload
C7_Witness ==
    /\ ce_pc = "returned"
    /\ ce_key = Some(KeyGood0x)
    /\ ~ce_input.data.some
    /\ ce_result.err = "Data Required"

\* C7 as stated: DataRequired whenever the payload is absent,
\* CredentialRequired whenever no credential is supplied, CredentialInvalid
\* whenever the credential cannot be parsed.
C7_Original ==
    ce_pc = "returned" =>
        /\ ~ce_input.data.some => ~ce_result.ok /\ ce_result.err = "Data Required"
        /\ ~ce_key.some => ~ce_result.ok /\ ce_result.err = "PrivateKeyNeeded"
        /\ (ce_key.some /\ ~CredentialParses) =>
              ~ce_result.ok /\ ce_result.err = "PrivateKeyParsingError"

(***************************************************************************)
(* Properties of the broadcast.                                            *)
(***************************************************************************)
AllFailed == AllSpawned /\ AllFinished /\ SucceededLeaves = {}

\* the errors create_envelope returns
EnvelopeBuilderErrors == {"PrivateKeyNeeded", "PrivateKeyParsingError", "Data Required"}

\* C8: when every leaf fails (or there is none), create_bundle still
\* assembles the empty bundle, encodes and compresses it and hands it to the
\* broadcast; what it returns is the sent transaction carrying that blob, or
\* an error of the broadcast, never an error of create_envelope.
C8_EmptyBundleBroadcast ==
    AllFailed =>
        /\ pc \in PostJoin => envelopes = <<>>
        /\ pc \in PostEncode =>
              /\ bundle = BundleDataFrom(<<>>)
              /\ serialized = LE(0, U32Width)
              /\ DecodeBundle(serialized) = Ok(BundleDataFrom(<<>>))
              /\ Decompress(compressed) = Ok(serialized)
        /\ pc = "done" =>
              /\ ret # Pending
              /\ ret.ok => sent = 1 /\ ret.val.input = compressed
              /\ ~ret.ok => ret.err \notin EnvelopeBuilderErrors

\* two leaves without payload, a good key: the empty bundle is sent
C8_Witness ==
    /\ pc = "done"
    /\ NumLeaves = 2
    /\ AllFailed
    /\ tasks[1].res.err = "Data Required"
    /\ ret.ok
    /\ sent = 1
    /\ bundle.envelopes = <<>>

\* C9: one create_bundle call sends at most once, and only after every
\* signing task has ended; a failure of the gateway ends the call with that
\* error, and nothing is sent again.
C9_SingleBroadcast ==
    /\ sent <= 1
    /\ sent = 1 => AllSpawned /\ AllFinished /\ pc = "done"
    /\ (~ret.ok /\ ret # Pending) => pc = "done"
    /\ (pc = "done" /\ ret.ok) => sent = 1
    /\ (pc = "done" /\ sent = 1 /\ ~ret.ok) => ret.err = "TransportError"

\* the send failed after three signed leaves
C9_Witness ==
    /\ pc = "done"
    /\ sent = 1
    /\ ret = Err("TransportError")
    /\ Len(envelopes) = 3

(***************************************************************************)
(* Properties of retrieve_bundle_data.                                     *)
(***************************************************************************)
AllSentinelZero(b) == \A j \in 1 .. Len(b.envelopes) : SentinelZero(b.envelopes[j])

\* the calldata decoded to a bundle, which the validator is at or done with
Decoded ==
    \/ rpc \in {"validate", "returned"}
    \/ rpc = "panicked" /\ panic \in {"nonce", "gas_limit", "gas_price"}

\* C4: a decoded bundle is accepted (returned) only if every envelope has
\* nonce, gas_limit and gas_price 0, and rejected only if some envelope has
\* one of them non-zero; the envelopes passed so far all have the three 0,
\* a rejection names the first violating envelope's failing field, and the
\* empty bundle is never rejected.
C4_ValidatorIff ==
    /\ rpc = "returned" => AllSentinelZero(unborsh)
    /\ Decoded =>
          \A j \in 1 .. checked : SentinelZero(unborsh.envelopes[j])
    /\ (rpc = "panicked" /\ Decoded) =>
          /\ ~AllSentinelZero(unborsh)
          /\ checked < Len(unborsh.envelopes)
          /\ ~SentinelZero(unborsh.envelopes[checked + 1])
    /\ (Decoded /\ unborsh.envelopes = <<>>) => rpc # "panicked"

\* a bundle rejected for the gas price of its second envelope
C4_Witness ==
    /\ rpc = "panicked"
    /\ panic = "gas_price"
    /\ checked = 1
    /\ Len(unborsh.envelopes) = 2
    /\ unborsh.envelopes[2].gas_price = 7
    /\ unborsh.envelopes[2].nonce = 0

\* C5: on the retrieval path malformed hex, a malformed compressed stream,
\* malformed bundle bytes and a violated zero-nonce/zero-gas invariant reach
\* the caller as typed errors; retrieve_bundle_data never aborts.
C5_NoAbort == rpc # "panicked"

(***************************************************************************)
(* Properties of the codec and the compression layer.                      *)
(***************************************************************************)
FieldsEqual(a, b) ==
    /\ a.nonce = b.nonce
    /\ a.gas_limit = b.gas_limit
    /\ a.gas_price = b.gas_price
    /\ a.to = b.to
    /\ a.value = b.value
    /\ a.input = b.input
    /\ a.signature = b.signature

\* C10: decoding the decompression of the compression of the encoding of a
\* bundle gives back the bundle: as many envelopes, in the same order, equal
\* field by field; no step of the way fails.
C10_RoundTrip ==
    /\ cd_pc # "failed"
    /\ cd_pc = "decompressed" => cd_bytes = borsh_ser(cd_bundle)
    /\ cd_pc = "decoded" =>
          /\ cd_out.ok
          /\ Len(cd_out.val.envelopes) = Len(cd_bundle.envelopes)
          /\ \A j \in 1 .. Len(cd_bundle.envelopes) :
                FieldsEqual(cd_out.val.envelopes[j], cd_bundle.envelopes[j])

\* two different envelopes, one of them with non-zero fields, round-tripped
C10_Witness ==
    /\ cd_pc = "decoded"
    /\ Len(cd_bundle.envelopes) = 2
    /\ cd_bundle.envelopes[1].gas_limit = 300
    /\ cd_bundle.envelopes[2].input = <<2, 3>>
    /\ cd_out.val.envelopes[1].gas_limit = 300

(***************************************************************************)
(* Properties of the create path followed by the retrieve path.            *)
(***************************************************************************)
\* every leaf was signed: its task ended with an envelope
AllSigned == AllSpawned /\ SucceededLeaves = 1 .. NumLeaves

\* the retrieved bundle has one envelope per leaf spec, in the order of the
\* specs, each with the three sentinels 0 and its spec's payload
OnePerSpec ==
    /\ Len(unborsh.envelopes) = NumLeaves
    /\ \A j \in 1 .. NumLeaves :
          /\ SentinelZero(unborsh.envelopes[j])
          /\ envelope_inputs[j].data.some
          /\ unborsh.envelopes[j].input = envelope_inputs[j].data.val

\* C11 as amended: a bundle the create path sent is never rejected on the
\* retrieve path and decodes to the bundle that was assembled; when every
\* leaf spec was signed, the retrieved bundle has one envelope per spec, in
\* spec order, each with nonce, gas_limit and gas_price 0, its spec's payload
\* and, as target, its spec's address when one is given and parses as an
\* address, the zero address otherwise.
C11_EndToEnd ==
    /\ rpc # "panicked"
    /\ rpc \in {"validate", "returned"} => unborsh = bundle
    /\ (rpc = "returned" /\ AllSigned) =>
          /\ OnePerSpec
          /\ \A j \in 1 .. NumLeaves :
                TargetParsedOrZero(unborsh.envelopes[j], envelope_inputs[j])

\* three signed leaves retrieved, the second with a target that is no address
C11_Witness ==
    /\ rpc = "returned"
    /\ NumLeaves = 3
    /\ AllSigned
    /\ envelope_inputs[2].target = Some(AddrBad)
    /\ unborsh.envelopes[1].to = ParseAddress(AddrA).val
    /\ unborsh.envelopes[2].to = ADDRESS_ZERO
    /\ unborsh.envelopes[3].input = <<1>>

\* C11 as stated: the same, each envelope carrying its spec's target.
C11_Original ==
    /\ rpc # "panicked"
    /\ rpc \in {"validate", "returned"} => unborsh = bundle
    /\ (rpc = "returned" /\ AllSigned) =>
          /\ OnePerSpec
          /\ \A j \in 1 .. NumLeaves :
                TargetAsGiven(unborsh.envelopes[j], envelope_inputs[j])


(***************************************************************************)
(* C12.  retrieve_bundle_tx for a hash the gateway has no transaction for. *)
(***************************************************************************)
GatewayHasNone == fetched.st = "absent"

\* the error the spec names NotFound is the report "error retrieving tx"
NotFound == Err("error retrieving tx")

\* nothing of retrieve_bundle_data has run
NoDecodeAttempt ==
    /\ rpc = "off"
    /\ byte_array = <<>>
    /\ unbrotli = <<>>
    /\ unborsh = BundleDataFrom(<<>>)

\* C12: when the gateway answers that the hash resolves to no transaction,
\* the call ends with the NotFound error and with nothing else: no metadata
\* is returned, no field is extracted from the absent transaction, and no
\* decompression or decode is attempted.
C12_NotFound ==
    GatewayHasNone =>
        /\ fpc \in {"unwrap", "done"}
        /\ fields = NoFields
        /\ NoDecodeAttempt
        /\ fpc = "done" => fret = NotFound

C12_Witness ==
    /\ GatewayHasNone
    /\ fpc = "done"
    /\ txid = TxidGood
    /\ ~fret.ok

(***************************************************************************)
(* C18.  retrieve_bundle_tx for a transaction the gateway returns.         *)
(***************************************************************************)
IsDecimalString(str) ==
    /\ Len(str) >= 1
    /\ \A i \in 1 .. Len(str) : \E d \in 1 .. 10 : DecDigits[d] = str[i]

RECURSIVE DecimalValue(_)
DecimalValue(str) ==
    IF str = <<>> THEN 0
    ELSE 10 * DecimalValue(SubSeq(str, 1, Len(str) - 1))
         + ((CHOOSE d \in 1 .. 10 : DecDigits[d] = str[Len(str)]) - 1)

\* what the gateway's block number stands for, where it stands for a number
BlockNumberReadable(tx) == tx.blockNumber.some /\ ParseU256(tx.blockNumber.val).ok

\* C18: once the gateway has returned a transaction the call succeeds,
\* whatever fields are missing: a missing block hash or calldata comes back
\* as "0x", a missing recipient as the zero address, a missing or unreadable
\* block number as "0"; a block number that is there comes back as the
\* decimal string of its value, and present fields come back as they are.
\* The calldata is handed over as it is, never decoded or validated.
C18_MetadataDefaults ==
    (fetched.st = "present" /\ fpc = "done") =>
        LET tx == fetched.tx
            m == fret.val
        IN /\ fret.ok
           /\ m.block_hash = (IF tx.blockHash.some THEN tx.blockHash.val
                              ELSE <<"0", "x">>)
           /\ m.calldata = (IF tx.input.some THEN tx.input.val
                            ELSE <<"0", "x">>)
           /\ m.to = (IF tx.to.some THEN tx.to.val
                      ELSE <<"0", "x">> \o Rep("0", 40))
           /\ IsDecimalString(m.block_number)
           /\ ~BlockNumberReadable(tx) => m.block_number = <<"0">>
           /\ BlockNumberReadable(tx) =>
                DecimalValue(m.block_number) = ParseU256(tx.blockNumber.val).val
           /\ NoDecodeAttempt

C18_Witness ==
    /\ fetched.st = "present"
    /\ fpc = "done"
    /\ fetched.tx.blockHash = None
    /\ fetched.tx.to = None
    /\ fetched.tx.input = Some(<<"0", "x", "z", "z">>)
    /\ fetched.tx.blockNumber = Some(<<"0", "x", "1", "a">>)
    /\ fret.ok
    /\ fret.val.block_number = <<"2", "6">>
    /\ fret.val.block_hash = <<"0", "x">>

(***************************************************************************)
(* C13.  create_bundle has no timeout of its own.                          *)
(***************************************************************************)
SomeTaskUnfinished == \E i \in 1 .. Len(tasks) : tasks[i].st = "running"

NotReturned == ret = Pending /\ sent = 0 /\ pc # "done"

AwaitingGateway == pc \in {"nonce", "send"}

\* C13: create_bundle waits for its tasks and for the gateway without any
\* limit.  While a signing task has not completed, create_bundle is not past
\* the join, has sent nothing and has not returned, whatever became of the
\* other tasks; so a task that never completes keeps it from ever returning
\* or broadcasting.  And when every task has completed and the gateway calls
\* of the broadcast complete, create_bundle returns.
C13_NoTimeout ==
    /\ [](SomeTaskUnfinished => (NotReturned /\ pc \in {"spawn", "join"}))
    /\ (<>[]SomeTaskUnfinished) => [](ret = Pending /\ sent = 0)
    /\ (<>[](~SomeTaskUnfinished /\ ~AwaitingGateway)) => <>(pc = "done")

\* one task still running while one has failed and one has its envelope, and
\* create_bundle is held at the join
C13_Witness ==
    /\ pc = "join"
    /\ NumLeaves = 3
    /\ tasks[1].st = "finished" /\ tasks[1].res.kind = "env"
    /\ tasks[2].st = "running"
    /\ tasks[3].st = "finished" /\ tasks[3].res.kind = "err"
    /\ NotReturned

(***************************************************************************)
(* C14.  generate_random_calldata.                                         *)
(***************************************************************************)
LowerHexChars == {"0", "1", "2", "3", "4", "5", "6", "7", "8", "9",
                  "a", "b", "c", "d", "e", "f"}

\* C14: the string generate_random_calldata(n) returns starts with "0x", is
\* max(n, 10) characters long, and has only characters of 0-9a-f after the
\* prefix.
C14_RandomCalldata ==
    gpc = "returned" =>
        /\ Len(gen_calldata) = (IF length >= 10 THEN length ELSE 10)
        /\ gen_calldata[1] = "0"
        /\ gen_calldata[2] = "x"
        /\ \A i \in 3 .. Len(gen_calldata) : gen_calldata[i] \in LowerHexChars

\* a request for fewer than ten characters, answered with ten
C14_Witness ==
    /\ gpc = "returned"
    /\ length = 3
    /\ Len(gen_calldata) = 10
    /\ gen_calldata[3] = "f"
    /\ gen_calldata[10] = "a"

(***************************************************************************)
(* C15.  One task per leaf spec, one join.                                 *)
(***************************************************************************)
\* create_bundle is past the spawning of its tasks
SpawningOver == pc = "join" \/ (pc \in PostJoin /\ results # <<>>)
                    \/ (pc \in PostJoin /\ NumLeaves = 0 /\ ret # Err("InvalidRpcUrl"))

\* the tasks that signed the envelope w
SignersOf(w) ==
    {i \in 1 .. Len(tasks) :
        tasks[i].signed.ok /\ from_envelope(tasks[i].signed.val) = w}

\* the places of es can be filled from distinct tasks: no envelope stands in
\* es more often than there are tasks that signed it
FromDistinctTasks(es) ==
    \A a \in 1 .. Len(es) :
        Cardinality({b \in 1 .. Len(es) : es[b] = es[a]})
            <= Cardinality(SignersOf(es[a]))

\* C15: there is never more than one task per leaf spec, and once spawning
\* is over there is exactly one for each, however many specs there are;
\* task i signs leaf spec i and ends at most once; the join takes one output
\* from every task; and the assembled bundle has no more envelopes than
\* there are specs, no two of them from the same task.
C15_OneTaskPerLeaf ==
    /\ Len(tasks) <= NumLeaves
    /\ SpawningOver => Len(tasks) = NumLeaves
    /\ \A i \in 1 .. Len(tasks) :
          tasks[i].signed.ok =>
              /\ envelope_inputs[i].data.some
              /\ tasks[i].signed.val.input = envelope_inputs[i].data.val
    /\ \A a, b \in 1 .. Len(completed) : a # b => completed[a] # completed[b]
    /\ \A a \in 1 .. Len(completed) : tasks[completed[a]].st = "finished"
    /\ results # <<>> =>
          /\ Len(results) = NumLeaves
          /\ \A i \in 1 .. NumLeaves : results[i] = tasks[i].res
    /\ Len(envelopes) <= NumLeaves
    /\ Len(bundle.envelopes) <= NumLeaves
    /\ FromDistinctTasks(envelopes)
    /\ FromDistinctTasks(bundle.envelopes)

\* the same leaf spec given three times: three tasks, three envelopes
C15_Witness ==
    /\ pc = "done"
    /\ ret.ok
    /\ NumLeaves = 3
    /\ envelope_inputs[1] = envelope_inputs[2]
    /\ envelope_inputs[2] = envelope_inputs[3]
    /\ Len(tasks) = 3
    /\ Len(completed) = 3
    /\ Len(bundle.envelopes) = 3

(***************************************************************************)
(* C16.  create_envelope looks at the credential before the payload.       *)
(***************************************************************************)
Failed(e) == ~ce_result.ok /\ ce_result.err = e

\* C16: what create_envelope reports about the credential does not depend
\* on the payload.  It returns CredentialRequired (PrivateKeyNeeded) exactly
\* when no credential is given, and CredentialInvalid
\* (PrivateKeyParsingError) exactly when one is given that cannot be parsed,
\* with or without a payload; DataRequired is returned only for a credential
\* that is given and parses, and then exactly when the payload is absent.
C16_CredentialFirst ==
    ce_pc = "returned" =>
        /\ Failed("PrivateKeyNeeded") <=> ~ce_key.some
        /\ Failed("PrivateKeyParsingError") <=> (ce_key.some /\ ~CredentialParses)
        /\ Failed("Data Required") => CredentialParses
        /\ CredentialParses => (Failed("Data Required") <=> ~ce_input.data.some)

\* neither credential nor payload: the credential is what is reported
C16_Witness ==
    /\ ce_pc = "returned"
    /\ ce_key = None
    /\ ~ce_input.data.some
    /\ Failed("PrivateKeyNeeded")

(***************************************************************************)
(* C17.  A task that ends abnormally.                                      *)
(***************************************************************************)
\* the leaves whose task ended abnormally, and those whose signing failed
PanickedLeaves == {i \in 1 .. Len(tasks) : tasks[i].res.kind = "panic"}
RefusedLeaves == {i \in 1 .. Len(tasks) : tasks[i].res.kind = "err"}

\* the envelopes among the outputs rs, in the order of rs
RECURSIVE EnvelopesAmong(_)
EnvelopesAmong(rs) ==
    IF rs = <<>> THEN <<>>
    ELSE (IF rs[1].kind = "env" THEN <<rs[1].env>> ELSE <<>>)
         \o EnvelopesAmong(Tail(rs))

\* the outputs rs with every abnormal end turned into a signing error
AsSigningErrors(rs) ==
    [i \in 1 .. Len(rs) |->
        IF rs[i].kind = "panic" THEN TaskErr("Data Required") ELSE rs[i]]

\* C17: a task whose join result is an error counts as a task whose signing
\* failed.  The envelopes collected are the ones of the other tasks, in task
\* order, the same as if the task had returned a signing error; the bundle
\* made of them is encoded and handed to the broadcast; and what
\* create_bundle returns is the sent transaction or an error of the
\* broadcast, never the failure of the task.
C17_JoinErrorDropped ==
    (results # <<>> /\ PanickedLeaves # {}) =>
        /\ \A i \in PanickedLeaves : results[i].kind = "panic"
        /\ envelopes = EnvelopesAmong(results)
        /\ envelopes = EnvelopesAmong(AsSigningErrors(results))
        /\ Len(envelopes) =
              NumLeaves - Cardinality(PanickedLeaves) - Cardinality(RefusedLeaves)
        /\ pc \in PostJoin
        /\ pc \in PostEncode =>
              /\ bundle.envelopes = envelopes
              /\ Decompress(compressed) = Ok(serialized)
              /\ DecodeBundle(serialized) = Ok(bundle)
        /\ pc = "done" =>
              /\ ret # Pending
              /\ ret.ok => sent = 1 /\ ret.val.input = compressed
              /\ ~ret.ok => ret.err \notin {"JoinError"} \cup EnvelopeBuilderErrors

\* the middle task of three ended abnormally, the third could not sign: the
\* first leaf alone is sent
C17_Witness ==
    /\ pc = "done"
    /\ ret.ok
    /\ NumLeaves = 3
    /\ PanickedLeaves = {2}
    /\ RefusedLeaves = {3}
    /\ Len(bundle.envelopes) = 1
    /\ bundle.envelopes[1] = tasks[1].res.env
    /\ sent = 1

=============================================================================
